---- MODULE Spec2Model ----
(***************************************************************************)
(* Filterer (src/Filterer.py): a window that loads the lines of a text     *)
(* file, filters them by a case-insensitive substring and saves the        *)
(* displayed text into a new file.                                         *)
(*                                                                         *)
(* Text is a sequence of Unicode code points, a file a sequence of bytes.  *)
(* The model follows the handlers of MainWindow: open_file, save_file,     *)
(* close_file, filter_display, handle_filtering_mode and the signal        *)
(* connections made in build_filter_line.                                  *)
(***************************************************************************)
EXTENDS Naturals, Sequences, FiniteSets

\* ------------------------------------------------------------ bounds
\* Queries typed into the line edit have at most MaxQueryLen characters.
MaxQueryLen == 1
\* The user can pick among the first NumFiles files of AllFiles.
NumFiles == 5

\* ------------------------------------------------------------ characters
\* Code points the handlers treat specially.
Ch == [LF |-> 10, CR |-> 13, SP |-> 32, NBSP |-> 160]

\* The comparison made case-sensitive: .lower() left out.
LowerChar_identity(c) == c

\* str.lower() on the code points below U+0100: A-Z and the Latin-1 capitals
\* (U+00C0..U+00DE without the multiplication sign U+00D7) move by 32.
LowerChar(c) ==
    IF (c >= 65 /\ c <= 90) \/ (c >= 192 /\ c <= 222 /\ c # 215)
    THEN c + 32
    ELSE c

RECURSIVE lower(_)
lower(s) ==
    IF s = <<>> THEN <<>> ELSE <<LowerChar(Head(s))>> \o lower(Tail(s))

\* Python's `needle in hay` for strings: some start position matches.
StrIn(needle, hay) ==
    \E k \in 1..(Len(hay) + 1) :
        /\ k + Len(needle) - 1 <= Len(hay)
        /\ \A j \in 1..Len(needle) : hay[k + j - 1] = needle[j]

\* ''.join(lines)
RECURSIVE join(_)
join(lines) ==
    IF lines = <<>> THEN <<>> ELSE Head(lines) \o join(Tail(lines))

\* ------------------------------------------------------------ codecs
\* The encodings the model knows, as chardet and io.open name them;
\* "None" is chardet's answer when it has no guess.
Encodings == {"ascii", "utf-8", "ISO-8859-1"}
DetectResults == Encodings \cup {"None"}

Fail == [ok |-> FALSE, val |-> <<>>]
Ok(v) == [ok |-> TRUE, val |-> v]

\* UTF-8 decoding of the one- and two-byte forms (code points below U+0800);
\* the files of the model hold no byte from 0xE0 up.
RECURSIVE DecodeUtf8(_)
DecodeUtf8(bytes) ==
    IF bytes = <<>> THEN Ok(<<>>)
    ELSE LET b == Head(bytes) IN
         IF b < 128
         THEN LET r == DecodeUtf8(Tail(bytes)) IN
              IF r.ok THEN Ok(<<b>> \o r.val) ELSE Fail
         ELSE IF b >= 194 /\ b <= 223 /\ Len(bytes) >= 2
                 /\ bytes[2] >= 128 /\ bytes[2] <= 191
         THEN LET r == DecodeUtf8(Tail(Tail(bytes))) IN
              IF r.ok
              THEN Ok(<<(b - 192) * 64 + (bytes[2] - 128)>> \o r.val)
              ELSE Fail
         ELSE Fail

RECURSIVE EncodeUtf8(_)
EncodeUtf8(text) ==
    IF text = <<>> THEN Ok(<<>>)
    ELSE LET c == Head(text)
             r == EncodeUtf8(Tail(text)) IN
         IF ~r.ok THEN Fail
         ELSE IF c < 128 THEN Ok(<<c>> \o r.val)
         ELSE IF c < 2048
              THEN Ok(<<192 + (c \div 64), 128 + (c % 64)>> \o r.val)
         ELSE Fail

\* bytes.decode(encoding): the text, or a UnicodeDecodeError.
Decode(enc, bytes) ==
    IF enc = "ascii"
    THEN IF \A i \in 1..Len(bytes) : bytes[i] < 128 THEN Ok(bytes) ELSE Fail
    ELSE IF enc = "ISO-8859-1" THEN Ok(bytes)
    ELSE DecodeUtf8(bytes)

\* str.encode(encoding): the bytes, or a UnicodeEncodeError.
Encode(enc, text) ==
    IF enc = "ascii"
    THEN IF \A i \in 1..Len(text) : text[i] < 128 THEN Ok(text) ELSE Fail
    ELSE IF enc = "ISO-8859-1"
    THEN IF \A i \in 1..Len(text) : text[i] < 256 THEN Ok(text) ELSE Fail
    ELSE EncodeUtf8(text)

\* ------------------------------------------------------------ text files
\* io.open(path, encoding=...) reads in text mode with newline=None
\* (universal newlines): "\r\n" and a lone "\r" both become "\n".
RECURSIVE TranslateOnRead(_)
TranslateOnRead(text) ==
    IF text = <<>> THEN <<>>
    ELSE IF Head(text) = Ch.CR
         THEN IF Len(text) >= 2 /\ text[2] = Ch.LF
              THEN <<Ch.LF>> \o TranslateOnRead(Tail(Tail(text)))
              ELSE <<Ch.LF>> \o TranslateOnRead(Tail(text))
         ELSE <<Head(text)>> \o TranslateOnRead(Tail(text))

\* f.readlines(): the text cut after every "\n"; a last piece without
\* terminator is a line too.
RECURSIVE SplitAcc(_, _)
SplitAcc(text, cur) ==
    IF text = <<>> THEN (IF cur = <<>> THEN <<>> ELSE <<cur>>)
    ELSE IF Head(text) = Ch.LF
         THEN <<Append(cur, Ch.LF)>> \o SplitAcc(Tail(text), <<>>)
         ELSE SplitAcc(Tail(text), Append(cur, Head(text)))

readlines(text) == SplitAcc(TranslateOnRead(text), <<>>)

\* Writing with newline='': "\n" is written as it is.
TranslateOnWrite_none(text, linesep) == text

\* io.open(path, "w", encoding=...) writes in text mode with newline=None:
\* every "\n" is written as os.linesep.
RECURSIVE TranslateOnWrite(_, _)
TranslateOnWrite(text, linesep) ==
    IF text = <<>> THEN <<>>
    ELSE IF Head(text) = Ch.LF
         THEN linesep \o TranslateOnWrite(Tail(text), linesep)
         ELSE <<Head(text)>> \o TranslateOnWrite(Tail(text), linesep)

\* QPlainTextEdit.toPlainText() is QTextDocument::toPlainText(): the text
\* of the document with no-break space (U+00A0) replaced by a space.
RECURSIVE toPlainText(_)
toPlainText(raw) ==
    IF raw = <<>> THEN <<>>
    ELSE <<IF Head(raw) = Ch.NBSP THEN Ch.SP ELSE Head(raw)>>
         \o toPlainText(Tail(raw))

\* ------------------------------------------------------------ the files
\* The files the user can pick in the Open dialog, as bytes.
AllFiles == <<
    \* "aB\r\n" "b\r" "aB\n" "Ab": a repeated line, mixed case, every kind of
    \* terminator and a last line without one
    <<97, 66, 13, 10, 98, 13, 97, 66, 10, 65, 98>>,
    \* the empty file
    <<>>,
    \* "b\n" "\xA0\n": after an ASCII first line, a byte that is neither
    \* ASCII nor valid UTF-8
    <<98, 10, 160, 10>>,
    \* "b\n" "<NBSP>A\n" in UTF-8: the first line is plain ASCII
    <<98, 10, 194, 160, 65, 10>>,
    \* "a<NBSP>b\n" in UTF-8
    <<97, 194, 160, 98, 10>>,
    \* "\n" "B\r\n": an empty line, CRLF
    <<10, 66, 13, 10>>,
    \* "A\r": one CR-terminated line
    <<65, 13>> >>

FileCount == IF NumFiles < Len(AllFiles) THEN NumFiles ELSE Len(AllFiles)
InputPaths == 1..FileCount
\* The path chosen in the Save dialog.
OutPath == 0

\* The texts the user can give the line edit.
QueryAlphabet == {65, 98}
RECURSIVE TextsUpTo(_)
TextsUpTo(n) ==
    IF n = 0 THEN {<<>>}
    ELSE LET shorter == TextsUpTo(n - 1) IN
         shorter \cup {Append(t, c) : t \in shorter, c \in QueryAlphabet}
Queries == TextsUpTo(MaxQueryLen)

\* ------------------------------------------------------------ state
VARIABLES
    textfile_data,           \* self.textfile_data: NoData (None) or the lines
    encoding,                \* self.encoding: "None" or chardet's label
    line_edit_text,          \* self.line_edit.text()
    display_text,            \* the text set into self.display
    filter_button_enabled,   \* self.filter_button.isEnabled()
    line_edit_enabled,       \* self.line_edit.isEnabled()
    display_enabled,         \* self.display.isEnabled()
    do_live_search_checked,  \* self.do_live_search_checkbox.isChecked()
    connections,             \* connections of line_edit.textChanged to filter_button.click
    out_file,                \* the file at OutPath
    os_linesep,              \* os.linesep of the platform
    locale_encoding,         \* locale.getpreferredencoding(False)
    app_alive,               \* FALSE once an unhandled exception ended the process
    last_op,                 \* history: the handler the last event ran
    outcome,                 \* history: how it ended ("ok" or the exception)
    filtered,                \* history: filter_display ran during the last event
    decoded_with,            \* history: the codec that decoded textfile_data
    source_bytes,            \* history: the bytes textfile_data was read from
    saved                    \* history: what the last save_file wrote, and from what

vars == <<textfile_data, encoding, line_edit_text, display_text,
          filter_button_enabled, line_edit_enabled, display_enabled,
          do_live_search_checked, connections,
          out_file, os_linesep, locale_encoding, app_alive, last_op, outcome,
          filtered, decoded_with, source_bytes, saved>>

NoData == [none |-> TRUE, lines |-> <<>>]
Lines(l) == [none |-> FALSE, lines |-> l]

\* The widgets and attributes a handler reads and writes, as one record.
Window ==
    [textfile_data |-> textfile_data, encoding |-> encoding,
     line_edit_text |-> line_edit_text, display_text |-> display_text,
     filter_button_enabled |-> filter_button_enabled,
     line_edit_enabled |-> line_edit_enabled,
     display_enabled |-> display_enabled,
     do_live_search_checked |-> do_live_search_checked,
     connections |-> connections,
     exc |-> "none", filtered |-> FALSE]

\* The handler's result becomes the next state. An exception that leaves a
\* slot is unhandled: PyQt5 prints it and goes on, or (from 5.5 on, with no
\* sys.excepthook installed) aborts the process.
Commit(w, op, result) ==
    /\ textfile_data' = w.textfile_data
    /\ encoding' = w.encoding
    /\ line_edit_text' = w.line_edit_text
    /\ display_text' = w.display_text
    /\ filter_button_enabled' = w.filter_button_enabled
    /\ line_edit_enabled' = w.line_edit_enabled
    /\ display_enabled' = w.display_enabled
    /\ do_live_search_checked' = w.do_live_search_checked
    /\ connections' = w.connections
    /\ filtered' = w.filtered
    /\ last_op' = op
    /\ outcome' = IF w.exc # "none" THEN w.exc ELSE result
    /\ IF w.exc # "none" THEN app_alive' \in BOOLEAN ELSE app_alive' = TRUE

Effective(enc) == IF enc = "None" THEN locale_encoding ELSE enc

\* ------------------------------------------------------------ handlers
\* filter_display (lines 234-250): the rows that hold the entered string,
\* compared in lower case. With no data loaded, ''.join(None) and the
\* iteration over None raise TypeError.
filter_display(w) ==
    IF w.textfile_data.none
    THEN [w EXCEPT !.exc = "TypeError", !.filtered = TRUE]
    ELSE LET filter_text_data == w.line_edit_text
             rows == w.textfile_data.lines
             HasText(i) == StrIn(lower(filter_text_data), lower(i))
         IN IF filter_text_data = <<>>
            THEN [w EXCEPT !.display_text = join(rows), !.filtered = TRUE]
            ELSE [w EXCEPT !.display_text = join(SelectSeq(rows, HasText)),
                           !.filtered = TRUE]

\* A click() that does not look at the button's enabled state.
click_ignoring_enabled(w) == filter_display(w)

\* QPushButton.click(): nothing when the button is disabled; otherwise the
\* button emits pressed, which is connected to filter_display (line 206).
click(w) == IF w.filter_button_enabled THEN filter_display(w) ELSE w

\* textChanged with nothing connected to it.
textChanged_unconnected(w, n) == w

\* line_edit.textChanged: one click() for every connection made at line 211.
RECURSIVE textChanged(_, _)
textChanged(w, n) == IF n = 0 THEN w ELSE textChanged(click(w), n - 1)

\* QLineEdit.setText(t): textChanged is emitted only when the text changes.
setText(w, t) ==
    IF t = w.line_edit_text
    THEN w
    ELSE textChanged([w EXCEPT !.line_edit_text = t], w.connections)

\* handle_filtering_mode (lines 208-214). Disconnecting removes the
\* connection made when the box was last checked; with none to remove,
\* PyQt raises TypeError.
handle_filtering_mode(w) ==
    IF w.do_live_search_checked
    THEN click([w EXCEPT !.connections = @ + 1])
    ELSE IF w.connections = 0
         THEN [w EXCEPT !.exc = "TypeError"]
         ELSE [w EXCEPT !.connections = 0]

\* close_file with the display cleared before the line edit.
close_file_reordered(w) ==
    LET w1 == [w EXCEPT !.display_text = <<>>]
        w2 == setText(w1, <<>>)
    IN [w2 EXCEPT !.filter_button_enabled = FALSE,
                  !.line_edit_enabled = FALSE,
                  !.display_enabled = FALSE]

\* close_file that also drops the loaded lines and the encoding.
close_file_resetting(w) ==
    LET w1 == setText(w, <<>>)
    IN [w1 EXCEPT !.display_text = <<>>,
                  !.filter_button_enabled = FALSE,
                  !.line_edit_enabled = FALSE,
                  !.display_enabled = FALSE,
                  !.textfile_data = NoData,
                  !.encoding = "None"]

\* close_file (lines 299-307).
close_file(w) ==
    LET w1 == setText(w, <<>>)
    IN [w1 EXCEPT !.display_text = <<>>,
                  !.filter_button_enabled = FALSE,
                  !.line_edit_enabled = FALSE,
                  !.display_enabled = FALSE]

\* The bytes of the file at a path the Open dialog can return.
FileBytes(file_path) ==
    IF file_path = OutPath THEN out_file.bytes ELSE AllFiles[file_path]

\* chardet.detect(f.readline(1000))['encoding'] (lines 310-314): a
\* statistical guess from the first line; any label, or None.
DetectEncoding(data) == DetectResults

\* io.open(file_path, encoding=e).readlines() (lines 259-260, 263-264).
ReadLinesAs(enc, bytes) ==
    LET d == Decode(enc, bytes) IN
    IF d.ok THEN Ok(readlines(d.val)) ELSE Fail

\* open_file after the dialog returned a path (lines 257-286).
open_file(w, file_path, detected) ==
    LET bytes == FileBytes(file_path)
        w1 == [w EXCEPT !.encoding = detected]
        first == ReadLinesAs(Effective(detected), bytes)
        fallback == ReadLinesAs("utf-8", bytes)
    IN IF ~first.ok /\ ~fallback.ok
       THEN [w1 EXCEPT !.exc = "UnicodeDecodeError"]
       ELSE LET rows == IF first.ok THEN first.val ELSE fallback.val
                w2 == [w1 EXCEPT !.textfile_data = Lines(rows)]
            IN IF rows = <<>>
               \* max() of an empty list (line 266)
               THEN [w2 EXCEPT !.exc = "ValueError"]
               ELSE LET w3 == [w2 EXCEPT !.display_text = join(rows)]
                    IN [w3 EXCEPT !.filter_button_enabled = TRUE,
                                  !.line_edit_enabled = TRUE,
                                  !.display_enabled = TRUE]

\* What save_file writes (lines 294-296): the display's plain text, "\n"
\* written as os.linesep, in self.encoding (None: the locale's encoding).
\* The file is opened, and so emptied, before write() encodes.
SaveBytes(w) ==
    Encode(Effective(w.encoding),
           TranslateOnWrite(toPlainText(w.display_text), os_linesep))

\* ------------------------------------------------------------ events
\* os.linesep and the locale's encoding: POSIX with a UTF-8 or a Latin-1
\* locale, Windows in UTF-8 mode.
Platforms ==
    {<<(<<Ch.LF>>), "utf-8">>, <<(<<Ch.LF>>), "ISO-8859-1">>,
     <<(<<Ch.CR, Ch.LF>>), "utf-8">>}

Init ==
    /\ textfile_data = NoData          \* line 91
    /\ encoding = "None"               \* line 127
    /\ line_edit_text = <<>>
    /\ display_text = <<>>
    /\ filter_button_enabled = FALSE   \* line 63
    /\ line_edit_enabled = FALSE       \* line 193
    /\ display_enabled = FALSE         \* line 227
    /\ do_live_search_checked = TRUE   \* line 70
    /\ connections = 1                 \* line 95: handle_filtering_mode()
    /\ out_file = [exists |-> FALSE, bytes |-> <<>>]
    /\ \E p \in Platforms : os_linesep = p[1] /\ locale_encoding = p[2]
    /\ app_alive = TRUE
    /\ last_op = "init"
    /\ outcome = "ok"
    /\ filtered = FALSE
    /\ decoded_with = "None"
    /\ source_bytes = <<>>
    /\ saved = [view |-> <<>>, encoding |-> "None", ok |-> FALSE, clean |-> FALSE]

Platform == <<os_linesep, locale_encoding>>

\* File > Open, the dialog cancelled (line 256: file_path is empty): nothing
\* happens.
OpenCancelled ==
    /\ app_alive
    /\ UNCHANGED vars

\* File > Open with one of `paths` picked, chardet giving any of its answers.
OpenFrom(paths) ==
    /\ app_alive
    /\ \E file_path \in paths :
       \E detected \in DetectEncoding(FileBytes(file_path)) :
          LET w == open_file(Window, file_path, detected)
              read == w.exc # "UnicodeDecodeError"
              first == ReadLinesAs(Effective(detected), FileBytes(file_path))
          IN /\ Commit(w, "open_file", "ok")
             /\ decoded_with' = IF ~read THEN decoded_with
                                ELSE IF first.ok THEN Effective(detected)
                                ELSE "utf-8"
             /\ source_bytes' = IF read THEN FileBytes(file_path)
                                ELSE source_bytes
    /\ UNCHANGED <<out_file, Platform, saved>>

\* File > Open, one of the input files picked.
OpenFile == OpenFrom(InputPaths)

\* File > Open, the file written by save_file picked.
OpenSaved == out_file.exists /\ OpenFrom({OutPath})

\* File > Save as, the dialog cancelled (line 293): nothing happens.
SaveCancelled ==
    /\ app_alive
    /\ UNCHANGED vars

\* File > Save as with a path given (lines 293-297).
SaveFile ==
    /\ app_alive
    /\ LET r == SaveBytes(Window)
           w == [Window EXCEPT !.exc = IF r.ok THEN "none"
                                       ELSE "UnicodeEncodeError"]
       IN /\ Commit(w, "save_file", "ok")
          /\ out_file' = [exists |-> TRUE, bytes |-> r.val]
          /\ saved' = [view |-> display_text,
                       encoding |-> Effective(encoding),
                       ok |-> r.ok,
                       clean |-> /\ ~textfile_data.none
                                 /\ decoded_with = Effective(encoding)]
    /\ UNCHANGED <<Platform, decoded_with, source_bytes>>

\* File > Close.
CloseFile ==
    /\ app_alive
    /\ Commit(close_file(Window), "close_file", "ok")
    /\ UNCHANGED <<out_file, Platform, decoded_with, source_bytes, saved>>

\* The user changes the text of the (enabled) line edit.
EditText ==
    /\ app_alive
    /\ line_edit_enabled
    /\ \E t \in Queries \ {line_edit_text} :
          Commit(setText(Window, t), "edit_text", "ok")
    /\ UNCHANGED <<out_file, Platform, decoded_with, source_bytes, saved>>

\* Enter in the (enabled) line edit: returnPressed, connected to
\* filter_button.click (line 201).
ReturnPressed ==
    /\ app_alive
    /\ line_edit_enabled
    /\ Commit(click(Window), "return_pressed", "ok")
    /\ UNCHANGED <<out_file, Platform, decoded_with, source_bytes, saved>>

\* The user presses the (enabled) Filter button: pressed, connected to
\* filter_display (line 206).
FilterPressed ==
    /\ app_alive
    /\ filter_button_enabled
    /\ Commit(filter_display(Window), "filter_pressed", "ok")
    /\ UNCHANGED <<out_file, Platform, decoded_with, source_bytes, saved>>

\* The user clicks the "Do live filtering" box: it toggles, then clicked
\* runs handle_filtering_mode (lines 202-203).
CheckboxClicked ==
    /\ app_alive
    /\ Commit(handle_filtering_mode(
                 [Window EXCEPT !.do_live_search_checked = ~@]),
              "checkbox_clicked", "ok")
    /\ UNCHANGED <<out_file, Platform, decoded_with, source_bytes, saved>>

\* The window: every event but saving, over the input files.
Next ==
    \/ OpenCancelled
    \/ OpenFile
    \/ CloseFile
    \/ EditText
    \/ ReturnPressed
    \/ FilterPressed
    \/ CheckboxClicked

Spec == Init /\ [][Next]_vars

\* A session that works on the input files with live filtering left
\* checked, saves once and then loads what it saved.
NextSave ==
    \/ ~out_file.exists /\ OpenFile
    \/ ~out_file.exists /\ EditText
    \/ ~out_file.exists /\ FilterPressed
    \/ ~out_file.exists /\ SaveCancelled
    \/ ~out_file.exists /\ SaveFile
    \/ last_op = "save_file" /\ OpenSaved

SpecSave == Init /\ [][NextSave]_vars

\* ------------------------------------------------------------ claims
\* Two characters that differ at most in case (A-Z, and the Latin-1 capitals).
IsCapital(c) == (c >= 65 /\ c <= 90) \/ (c >= 192 /\ c <= 222 /\ c # 215)
SameIgnoringCase(c, d) ==
    \/ c = d
    \/ IsCapital(c) /\ d = c + 32
    \/ IsCapital(d) /\ c = d + 32

\* q occurs in line, case ignored.
ContainsIgnoringCase(line, q) ==
    \E start \in 0..Len(line) :
        /\ start + Len(q) <= Len(line)
        /\ \A j \in 1..Len(q) : SameIgnoringCase(line[start + j], q[j])

\* The lines of D from index i on that contain q, one after the other.
RECURSIVE MatchingFrom(_, _, _)
MatchingFrom(D, q, i) ==
    IF i > Len(D) THEN <<>>
    ELSE (IF ContainsIgnoringCase(D[i], q) THEN D[i] ELSE <<>>)
         \o MatchingFrom(D, q, i + 1)

ExpectedView == MatchingFrom(textfile_data.lines, line_edit_text, 1)

\* filter_display wrote the display last in the last event.
ViewFromFilter == filtered /\ outcome = "ok" /\ last_op # "close_file"

\* C1: the view filter_display produces is the lines of the document that
\* contain the query, case ignored: each with its multiplicity, in the
\* original order, and no other line.
C1_FilterKeepsExactlyMatchingLines ==
    ViewFromFilter => display_text = ExpectedView

\* C1 witness: a filter that kept a line twice, kept a line that matches
\* only when case is ignored, and dropped a line.
C1_Witness ==
    /\ ViewFromFilter
    /\ line_edit_text # <<>>
    /\ LET D == textfile_data.lines
           q == line_edit_text
       IN /\ \E i, j \in 1..Len(D) :
                i < j /\ D[i] = D[j] /\ ContainsIgnoringCase(D[i], q)
          /\ \E i \in 1..Len(D) :
                ContainsIgnoringCase(D[i], q) /\ ~StrIn(q, D[i])
          /\ \E i \in 1..Len(D) : ~ContainsIgnoringCase(D[i], q)

\* The text cut after every "\n".
RECURSIVE LinesOf(_)
LinesOf(text) ==
    IF text = <<>> THEN <<>>
    ELSE LET n == CHOOSE k \in 1..Len(text) :
                    /\ text[k] = Ch.LF \/ k = Len(text)
                    /\ \A m \in 1..(k - 1) : text[m] # Ch.LF
         IN <<SubSeq(text, 1, n)>> \o LinesOf(SubSeq(text, n + 1, Len(text)))

\* The document on screen was decoded without error by the detected
\* encoding, was saved in it, and the saved file was detected and decoded
\* as that encoding again.
CleanRoundTrip ==
    /\ last_op = "open_file"
    /\ outcome # "UnicodeDecodeError"
    /\ out_file.exists
    /\ saved.ok
    /\ saved.clean
    /\ source_bytes = out_file.bytes
    /\ decoded_with = saved.encoding
    /\ Effective(encoding) = decoded_with

\* C2: after open, filter, save and open of the saved file, with the
\* encoding cleanly detected both times, the lines loaded are the lines
\* that were displayed when the file was saved.
C2_RoundTripReloadsDisplayedLines ==
    CleanRoundTrip => textfile_data.lines = LinesOf(saved.view)

\* The terminators of a file, in order.
RECURSIVE Terminators(_)
Terminators(bytes) ==
    IF bytes = <<>> THEN <<>>
    ELSE IF Head(bytes) = Ch.CR
         THEN IF Len(bytes) >= 2 /\ bytes[2] = Ch.LF
              THEN <<"CRLF">> \o Terminators(Tail(Tail(bytes)))
              ELSE <<"CR">> \o Terminators(Tail(bytes))
         ELSE IF Head(bytes) = Ch.LF
              THEN <<"LF">> \o Terminators(Tail(bytes))
              ELSE Terminators(Tail(bytes))

\* save_file has just written the whole loaded document.
SavedWholeDocument ==
    /\ last_op = "save_file"
    /\ outcome = "ok"
    /\ ~textfile_data.none
    /\ display_text = join(textfile_data.lines)

\* C3 as stated: the terminators written are the terminators of the input
\* file, line for line.
C3_TerminatorsPreserved ==
    SavedWholeDocument =>
        Terminators(out_file.bytes) = Terminators(source_bytes)

LinesepName == IF os_linesep = <<Ch.LF>> THEN "LF" ELSE "CRLF"

\* C3 amended: every terminator of the input (LF, CRLF or CR) is read as
\* "\n", and save_file writes every "\n" of the displayed text as
\* os.linesep.
C3_TerminatorsNormalised ==
    /\ ~textfile_data.none =>
          LET D == textfile_data.lines IN
          /\ \A i \in 1..Len(D) : \A k \in 1..Len(D[i]) :
                /\ D[i][k] # Ch.CR
                /\ D[i][k] = Ch.LF => k = Len(D[i])
          /\ Len(Terminators(source_bytes)) =
                Cardinality({i \in 1..Len(D) : D[i][Len(D[i])] = Ch.LF})
    /\ (last_op = "save_file" /\ outcome = "ok") =>
          LET T == Terminators(out_file.bytes) IN
          /\ Len(T) = Cardinality({k \in 1..Len(display_text) :
                                     display_text[k] = Ch.LF})
          /\ \A i \in 1..Len(T) : T[i] = LinesepName

\* C3 witness: a document read from CRLF and CR lines, written whole.
C3_Witness ==
    /\ SavedWholeDocument
    /\ \E i, j \in 1..Len(Terminators(source_bytes)) :
          /\ Terminators(source_bytes)[i] = "CRLF"
          /\ Terminators(source_bytes)[j] = "CR"
    /\ Terminators(out_file.bytes) # <<>>

\* C4 as stated: right after a load and after a change of the query text
\* the display is the filter of the current lines by the current query.
C4_ViewAlwaysRecomputed ==
    (\/ last_op = "open_file" /\ outcome = "ok"
     \/ last_op = "edit_text")
    => display_text = ExpectedView

\* C4 amended: a load shows all lines of the loaded file whatever the query
\* text; the view is recomputed from the current lines and query on a
\* change of the query text while "Do live filtering" is checked, and on
\* Enter and the Filter button.
C4_ViewRecomputedWhenLive ==
    /\ (last_op = "open_file" /\ outcome = "ok") =>
          display_text = join(textfile_data.lines)
    /\ (last_op = "edit_text" /\ do_live_search_checked) =>
          display_text = ExpectedView
    /\ (last_op \in {"return_pressed", "filter_pressed"}) =>
          display_text = ExpectedView

\* C4 witness: a live change of the query that removed lines from the view.
C4_Witness ==
    /\ last_op = "edit_text"
    /\ do_live_search_checked
    /\ line_edit_text # <<>>
    /\ display_text # <<>>
    /\ display_text # join(textfile_data.lines)

\* C5 as stated: after close_file the stored lines and the stored encoding
\* are None again.
C5_CloseResetsDocument ==
    last_op = "close_file" => textfile_data = NoData /\ encoding = "None"

\* C5 amended: close_file leaves the stored lines and the stored encoding
\* as they were.
C5_CloseKeepsDocument ==
    [][last_op' = "close_file" =>
         textfile_data' = textfile_data /\ encoding' = encoding]_vars

\* C5 witness: a loaded document closed, its lines and encoding still stored.
C5_Witness ==
    /\ last_op = "close_file"
    /\ ~textfile_data.none
    /\ textfile_data.lines # <<>>
    /\ encoding # "None"

\* C6: an open_file that fails to decode changes neither the stored lines
\* nor the stored encoding nor the displayed text.
C6_FailedLoadChangesNothing ==
    [][(last_op' = "open_file" /\ outcome' = "UnicodeDecodeError") =>
         /\ textfile_data' = textfile_data
         /\ encoding' = encoding
         /\ display_text' = display_text]_vars

\* C7: after a successful open_file the stored encoding, which save_file
\* will use, is the encoding that decoded the lines.
C7_StoredEncodingDecodedTheLines ==
    (last_op = "open_file" /\ outcome = "ok") =>
        Effective(encoding) = decoded_with

\* C8: after close_file the display and the query are empty and the button,
\* the line edit and the display are disabled.
C8_CloseClearsAndDisables ==
    last_op = "close_file" =>
        /\ display_text = <<>>
        /\ line_edit_text = <<>>
        /\ ~filter_button_enabled
        /\ ~line_edit_enabled
        /\ ~display_enabled

\* C8 witness: a close_file whose clearing of the query ran a live filter
\* over a loaded document.
C8_Witness ==
    /\ last_op = "close_file"
    /\ filtered
    /\ do_live_search_checked
    /\ ~textfile_data.none
    /\ textfile_data.lines # <<>>

\* C9: open_file of a file with no lines ends normally, with the document
\* the empty list, the display empty and button and line edit disabled.
C9_EmptyFileLoads ==
    (/\ last_op = "open_file"
     /\ outcome # "UnicodeDecodeError"
     /\ source_bytes = <<>>)
    => /\ outcome = "ok"
       /\ textfile_data = Lines(<<>>)
       /\ display_text = <<>>
       /\ ~filter_button_enabled
       /\ ~line_edit_enabled

\* C10: the filter button is enabled only with a document loaded, and
\* filter_display never ran against None.
C10_ButtonEnabledOnlyWithDocument ==
    /\ filter_button_enabled => ~textfile_data.none
    /\ outcome # "TypeError"

\* C10 witness: checking the box clicked the enabled button, and
\* filter_display ran over the loaded document.
C10_Witness ==
    /\ last_op = "checkbox_clicked"
    /\ do_live_search_checked
    /\ filter_button_enabled
    /\ filtered
    /\ ~textfile_data.none

====
